---- MODULE Spec2Model ----
(***************************************************************************)
(* Model of src/main.py: DockerfileParser (parse, _normalize_content,      *)
(* generate_compose_yaml) and the click command main.                      *)
(*                                                                         *)
(* Text is modelled as a sequence of whitespace-separated tokens in which  *)
(* the token NL is a line break; between two neighbouring tokens of one    *)
(* line there is a single space.  Every regular expression of the source   *)
(* is translated to a scan over that token sequence.  What a regular       *)
(* expression does inside one token (case folding, leading digits, the     *)
(* text before a quote, ...) is tabulated per token of the alphabet in the *)
(* lexicon below.                                                          *)
(***************************************************************************)
EXTENDS Integers, Sequences, FiniteSets, TLC

(* ---------------------------------------------------------------- bounds *)

\* Longest Dockerfile, in raw lines.
MaxLines == 3
\* Most parse() calls made on one DockerfileParser object.
MaxParses == 2

(* --------------------------------------------------------------- lexicon *)

NL == "\n"
BS == "\\"
None == "None"

\* str.upper() of a token.  Only the lower-case words of the alphabet change;
\* no other token of the alphabet contains a lower-case keyword.
Upper(t) ==
  CASE t = "from" -> "FROM"
    [] OTHER -> t

\* re.IGNORECASE match of keyword kw ending at the end of token t, which is
\* what  KW\s+  needs.  No token of the alphabet has a keyword as a proper
\* suffix or prefix, so both tests are equality after case folding.
EndsWith(t, kw) == Upper(t) = kw
StartsWith(t, kw) == Upper(t) = kw

\* (\d+) at the start of a token: its leading decimal digits, "" when none.
Digits(t) ==
  CASE t = "8080" -> "8080"
    [] t = "53/udp" -> "53"
    [] OTHER -> ""

\* \w at the start of a token.
StartsWithWordChar(t) ==
  t \notin {NL, BS, "#", "--interval=5s", "--retries=abc", "--timeout=3s",
            "--retries=5", "-f", "/data", "/app", "/start.sh",
            "[\"/data\"]", "[\"run\"]", "[\"--config\",",
            "\"/etc/app/config.yaml\",", "\"--verbose\"]",
            "[\"/usr/local/bin/server\"]", "[\"python\",", "\"app.py\"]",
            "[python"}

\* --\S+ : a HEALTHCHECK option token.
IsOption(t) ==
  t \in {"--interval=5s", "--retries=abc", "--timeout=3s", "--retries=5"}

\* --<name>=(\S+) searched in one option token: the value, None when the
\* token is not that option.
OptionValue(t, name) ==
  CASE t = "--interval=5s" /\ name = "interval" -> "5s"
    [] t = "--timeout=3s" /\ name = "timeout" -> "3s"
    [] t = "--retries=abc" /\ name = "retries" -> "abc"
    [] t = "--retries=5" /\ name = "retries" -> "5"
    [] OTHER -> None

\* int(s): the value, or -1 for the ValueError int() raises.
ParseInt(s) ==
  CASE s = "5" -> 5
    [] OTHER -> -1

\* str.startswith('[') and str.endswith(']') of a token.
Opens(t) ==
  t \in {"[\"/data\"]", "[\"run\"]", "[\"--config\",",
         "[\"/usr/local/bin/server\"]", "[\"python\",", "[python"}
Closes(t) ==
  t \in {"[\"/data\"]", "[\"run\"]", "\"--verbose\"]",
         "[\"/usr/local/bin/server\"]", "\"app.py\"]", "app.py]"}

\* A token that is a piece of a Python list literal of string literals: eval()
\* of a bracketed value made of such tokens only returns the list of their
\* texts; with any other token in it eval() raises (SyntaxError, NameError).
IsLiteralPiece(t) ==
  t \in {"[\"/data\"]", "[\"run\"]", "[\"--config\",",
         "\"/etc/app/config.yaml\",", "\"--verbose\"]",
         "[\"/usr/local/bin/server\"]", "[\"python\",", "\"app.py\"]"}

\* The string a literal piece denotes.
LiteralText(t) ==
  CASE t = "[\"/data\"]" -> "/data"
    [] t = "[\"run\"]" -> "run"
    [] t = "[\"--config\"," -> "--config"
    [] t = "\"/etc/app/config.yaml\"," -> "/etc/app/config.yaml"
    [] t = "\"--verbose\"]" -> "--verbose"
    [] t = "[\"/usr/local/bin/server\"]" -> "/usr/local/bin/server"
    [] t = "[\"python\"," -> "python"
    [] t = "\"app.py\"]" -> "app.py"
    [] OTHER -> t

\* A token of a bracketed value with the enclosing [ and ] removed
\* (val[1:-1]), as the fallback tokenizer  "([^"]+)"|'([^']+)'|(\S+)  sees it
\* after the double quotes were replaced by single quotes.  Only bare tokens
\* reach the fallback in this alphabet, so group 3 returns the token.
Inner(t) ==
  CASE t = "[python" -> "python"
    [] t = "app.py]" -> "app.py"
    [] OTHER -> t

\* VOLUME\s+\[?"?([^"\]]+)"?\]? : what group 1 takes from the token that
\* follows VOLUME (the optional [ and " skipped), and whether the group ends
\* in that token (it holds a " or a ] after its first character).
VolumeFirst(t) ==
  CASE t = "[\"/data\"]" -> [text |-> "/data", stop |-> TRUE]
    [] t = "[\"run\"]" -> [text |-> "run", stop |-> TRUE]
    [] t = "[\"--config\"," -> [text |-> "--config", stop |-> TRUE]
    [] t = "\"/etc/app/config.yaml\"," ->
         [text |-> "/etc/app/config.yaml", stop |-> TRUE]
    [] t = "\"--verbose\"]" -> [text |-> "--verbose", stop |-> TRUE]
    [] t = "[\"/usr/local/bin/server\"]" ->
         [text |-> "/usr/local/bin/server", stop |-> TRUE]
    [] t = "[\"python\"," -> [text |-> "python", stop |-> TRUE]
    [] t = "\"app.py\"]" -> [text |-> "app.py", stop |-> TRUE]
    [] t = "[python" -> [text |-> "python", stop |-> FALSE]
    [] t = "app.py]" -> [text |-> "app.py", stop |-> TRUE]
    [] OTHER -> [text |-> t, stop |-> FALSE]

\* What group 1 of the VOLUME expression takes from a later token: the text
\* before its first " or ], and whether it holds one.
VolumeNext(t) ==
  CASE t = "[\"/data\"]" -> [text |-> "[", stop |-> TRUE]
    [] t = "[\"run\"]" -> [text |-> "[", stop |-> TRUE]
    [] t = "[\"--config\"," -> [text |-> "[", stop |-> TRUE]
    [] t = "\"/etc/app/config.yaml\"," -> [text |-> "", stop |-> TRUE]
    [] t = "\"--verbose\"]" -> [text |-> "", stop |-> TRUE]
    [] t = "[\"/usr/local/bin/server\"]" -> [text |-> "[", stop |-> TRUE]
    [] t = "[\"python\"," -> [text |-> "[", stop |-> TRUE]
    [] t = "\"app.py\"]" -> [text |-> "", stop |-> TRUE]
    [] t = "app.py]" -> [text |-> "app.py", stop |-> TRUE]
    [] OTHER -> [text |-> t, stop |-> FALSE]

\* ENV\s+([^\s=]+)(?:\s+|\s*=\s*)([^\s]+) inside the token after ENV: the
\* text before its first "=" and the text after it ("" when it has none).
EqKey(t) ==
  CASE t = "FOO=bar" -> "FOO"
    [] t = "--interval=5s" -> "--interval"
    [] t = "--timeout=3s" -> "--timeout"
    [] t = "--retries=abc" -> "--retries"
    [] t = "--retries=5" -> "--retries"
    [] OTHER -> t
EqValue(t) ==
  CASE t = "FOO=bar" -> "bar"
    [] t = "--interval=5s" -> "5s"
    [] t = "--timeout=3s" -> "3s"
    [] t = "--retries=abc" -> "abc"
    [] t = "--retries=5" -> "5"
    [] OTHER -> ""

\* str.strip('"\'') of a token.
StripQuotes(t) ==
  CASE t = "\"/etc/app/config.yaml\"," -> "/etc/app/config.yaml\","
    [] t = "\"--verbose\"]" -> "--verbose\"]"
    [] t = "\"app.py\"]" -> "app.py\"]"
    [] OTHER -> t

(* ---------------------------------------------------------------- inputs *)

\* The raw lines a modelled Dockerfile is made of.
Lines ==
  { <<"FROM", "python:3.9">>,
    <<"FROM", "node:18", "AS", "builder">>,
    <<"#", "copied", "from", "builder">>,
    <<"EXPOSE", "8080">>,
    <<"EXPOSE", "53/udp">>,
    <<"VOLUME", "/data">>,
    <<"VOLUME", "[\"/data\"]">>,
    <<"ENV", "FOO=bar">>,
    <<"WORKDIR", "/app">>,
    <<"HEALTHCHECK", "CMD", "curl", "-f", "http://localhost/">>,
    <<"HEALTHCHECK", "--interval=5s", "CMD", "curl", "-f", "http://localhost/">>,
    <<"HEALTHCHECK", "--retries=abc", "CMD", "true">>,
    <<"HEALTHCHECK", "--timeout=3s", "--retries=5", BS>>,
    <<"CMD", "curl", "-f", "http://localhost/">>,
    <<"CMD", "[\"run\"]">>,
    <<"CMD", "[\"--config\",", "\"/etc/app/config.yaml\",", "\"--verbose\"]">>,
    <<"ENTRYPOINT", "[\"/usr/local/bin/server\"]">>,
    <<"ENTRYPOINT", "[\"python\",", "\"app.py\"]">>,
    <<"ENTRYPOINT", "[python", "app.py]">>,
    <<"ENTRYPOINT", "/start.sh">> }

\* Every Dockerfile of at most MaxLines lines.
Dockerfiles == UNION { [1..n -> Lines] : n \in 0..MaxLines }

(* ------------------------------------------------------------------ text *)

\* f.read(): the lines of the file, each ended by a line break.
RECURSIVE ReadText(_)
ReadText(lines) ==
  IF lines = <<>> THEN <<>>
  ELSE Head(lines) \o <<NL>> \o ReadText(Tail(lines))

RECURSIVE SkipNL(_)
SkipNL(s) == IF s # <<>> /\ Head(s) = NL THEN SkipNL(Tail(s)) ELSE s

\* re.sub(r'\\\s*\n', ' ', content): a backslash followed by white space up
\* to the last line break of that white space becomes one space.
RECURSIVE normalize_content(_)
normalize_content(content) ==
  IF content = <<>> THEN <<>>
  ELSE IF Head(content) = BS /\ Len(content) > 1 /\ content[2] = NL
       THEN normalize_content(SkipNL(Tail(content)))
       ELSE <<Head(content)>> \o normalize_content(Tail(content))

\* content.split('\n') followed by line.strip() of each piece.
RECURSIVE SplitLines(_, _)
SplitLines(content, cur) ==
  IF content = <<>> THEN <<cur>>
  ELSE IF Head(content) = NL THEN <<cur>> \o SplitLines(Tail(content), <<>>)
       ELSE SplitLines(Tail(content), Append(cur, Head(content)))

\* \s+ after position i: the index of the next token that is not a line
\* break, 0 when the text ends first.
RECURSIVE NextWord(_, _)
NextWord(c, i) ==
  IF i >= Len(c) THEN 0
  ELSE IF c[i + 1] # NL THEN i + 1 ELSE NextWord(c, i + 1)

\* (.+) from position i: the tokens up to the next line break.
RECURSIVE RestOfLine(_, _)
RestOfLine(c, i) ==
  IF i > Len(c) \/ c[i] = NL THEN <<>>
  ELSE <<c[i]>> \o RestOfLine(c, i + 1)

(* ------------------------------------------------------------------ FROM *)

\* list(re.finditer(r'FROM\s+([^\s]+)(?:\s+as\s+\w+)?', content, I))[-1]
\* .group(1), scanning from position i with `last` the latest group 1.
RECURSIVE LastFrom(_, _, _)
LastFrom(c, i, last) ==
  IF i > Len(c) THEN last
  ELSE IF EndsWith(c[i], "FROM") /\ NextWord(c, i) # 0
       THEN LET j == NextWord(c, i)
                a == NextWord(c, j)
                s == IF a = 0 THEN 0 ELSE NextWord(c, a)
                end == IF a # 0 /\ Upper(c[a]) = "AS" /\ s # 0
                          /\ StartsWithWordChar(c[s])
                       THEN s ELSE j
            IN LastFrom(c, end + 1, c[j])
       ELSE LastFrom(c, i + 1, last)

(* ---------------------------------------------------------------- EXPOSE *)

\* [m.group(1) for m in re.finditer(r'EXPOSE\s+(\d+)(?:\/(?:tcp|udp))?', ...)]
RECURSIVE ExposeMatches(_, _)
ExposeMatches(c, i) ==
  IF i > Len(c) THEN <<>>
  ELSE IF EndsWith(c[i], "EXPOSE") /\ NextWord(c, i) # 0
          /\ Digits(c[NextWord(c, i)]) # ""
       THEN <<Digits(c[NextWord(c, i)])>> \o ExposeMatches(c, NextWord(c, i) + 1)
       ELSE ExposeMatches(c, i + 1)

(* ---------------------------------------------------------------- VOLUME *)

\* Group 1 of the VOLUME expression continued from position i: ([^"\]]+)
\* runs over spaces and line breaks until a token holds a " or a ].  `texts`
\* are the white-space separated pieces it covers, `end` the last token the
\* match touches.
RECURSIVE VolumeRest(_, _)
VolumeRest(c, i) ==
  IF i > Len(c) THEN [texts |-> <<>>, end |-> Len(c)]
  ELSE IF c[i] = NL THEN VolumeRest(c, i + 1)
  ELSE LET v == VolumeNext(c[i]) IN
       IF v.stop
       THEN [texts |-> IF v.text = "" THEN <<>> ELSE <<v.text>>, end |-> i]
       ELSE LET r == VolumeRest(c, i + 1)
            IN [texts |-> <<v.text>> \o r.texts, end |-> r.end]

\* for match in re.finditer(r'VOLUME\s+\[?"?([^"\]]+)"?\]?', content, I):
\*     self.volumes.extend(v.strip(' "\'') for v in match.group(1).split())
\* No token of the alphabet has a comma before its first quote, so group 1
\* never holds a comma and the split is the white-space one.
RECURSIVE VolumeMatches(_, _)
VolumeMatches(c, i) ==
  IF i > Len(c) THEN <<>>
  ELSE IF EndsWith(c[i], "VOLUME") /\ NextWord(c, i) # 0
       THEN LET j == NextWord(c, i)
                f == VolumeFirst(c[j])
                r == IF f.stop THEN [texts |-> <<>>, end |-> j]
                     ELSE VolumeRest(c, j + 1)
            IN <<f.text>> \o r.texts \o VolumeMatches(c, r.end + 1)
       ELSE VolumeMatches(c, i + 1)

(* ------------------------------------------------------------------- ENV *)

\* self.environment[key] = value on an insertion-ordered dict, kept as a
\* sequence of <<key, value>> pairs.
RECURSIVE DictSet(_, _, _)
DictSet(d, key, value) ==
  IF d = <<>> THEN << <<key, value>> >>
  ELSE IF Head(d)[1] = key THEN << <<key, value>> >> \o Tail(d)
       ELSE <<Head(d)>> \o DictSet(Tail(d), key, value)

\* for match in re.finditer(r'ENV\s+([^\s=]+)(?:\s+|\s*=\s*)([^\s]+)', ...):
\*     self.environment[match.group(1)] = match.group(2).strip('"\'')
RECURSIVE EnvMatches(_, _, _)
EnvMatches(c, i, env) ==
  IF i > Len(c) THEN env
  ELSE IF EndsWith(c[i], "ENV") /\ NextWord(c, i) # 0
       THEN LET j == NextWord(c, i)
                v == NextWord(c, j)
            IN IF EqValue(c[j]) # ""
               THEN EnvMatches(c, j + 1,
                               DictSet(env, EqKey(c[j]), StripQuotes(EqValue(c[j]))))
               ELSE IF v # 0
                    THEN EnvMatches(c, v + 1,
                                    DictSet(env, c[j], StripQuotes(c[v])))
                    ELSE EnvMatches(c, i + 1, env)
       ELSE EnvMatches(c, i + 1, env)

(* --------------------------------------------------------------- WORKDIR *)

\* re.search(r'WORKDIR\s+([^\s]+)', content, I): group 1 of the first match,
\* None without one.
RECURSIVE WorkdirSearch(_, _)
WorkdirSearch(c, i) ==
  IF i > Len(c) THEN None
  ELSE IF EndsWith(c[i], "WORKDIR") /\ NextWord(c, i) # 0
       THEN c[NextWord(c, i)]
       ELSE WorkdirSearch(c, i + 1)

(* ----------------------------------------------------------- HEALTHCHECK *)

\* (--\S+(?:\s*=\s*\S+)?(?:\s+--\S+(?:\s*=\s*\S+)?)*) from position i: the
\* longest run of option tokens, and the position after it.
RECURSIVE OptionRun(_, _)
OptionRun(c, i) ==
  IF i = 0 \/ ~IsOption(c[i]) THEN [opts |-> <<>>, next |-> i]
  ELSE LET r == OptionRun(c, NextWord(c, i))
       IN [opts |-> <<c[i]>> \o r.opts, next |-> r.next]

\* One attempt of  HEALTHCHECK\s+(<options>)\s+CMD\s+(.+)  at token i.
HealthcheckAt(c, i) ==
  LET r == OptionRun(c, NextWord(c, i))
      k == r.next
      m == IF k = 0 THEN 0 ELSE NextWord(c, k)
  IN IF EndsWith(c[i], "HEALTHCHECK") /\ r.opts # <<>> /\ k # 0
        /\ Upper(c[k]) = "CMD" /\ m # 0
     THEN [found |-> TRUE, options |-> r.opts, cmd_str |-> RestOfLine(c, m)]
     ELSE [found |-> FALSE, options |-> <<>>, cmd_str |-> <<>>]

\* re.search of the HEALTHCHECK expression: its first match.
RECURSIVE HealthcheckSearch(_, _)
HealthcheckSearch(c, i) ==
  IF i > Len(c) THEN [found |-> FALSE, options |-> <<>>, cmd_str |-> <<>>]
  ELSE IF HealthcheckAt(c, i).found THEN HealthcheckAt(c, i)
       ELSE HealthcheckSearch(c, i + 1)

\* re.search(r'--<name>=(\S+)', options_str): group 1 of the first match.
RECURSIVE OptionSearch(_, _)
OptionSearch(opts, name) ==
  IF opts = <<>> THEN None
  ELSE IF OptionValue(Head(opts), name) # None THEN OptionValue(Head(opts), name)
       ELSE OptionSearch(Tail(opts), name)

\* The keys self.healthcheck_options can hold.  The dict is kept as a
\* function on them: <<>> for a key it does not hold, <<v>> for a value.
OptionNames == {"interval", "timeout", "start_period", "retries"}
NoOptions == [n \in OptionNames |-> <<>>]

\* The command-line spelling of an option key.
Flag(n) == IF n = "start_period" THEN "start-period" ELSE n

\* The interval, timeout and start-period assignments to
\* self.healthcheck_options (lines 82-92), which the retries conversion
\* follows.
OptionsBeforeRetries(old, opts) ==
  [ n \in OptionNames |->
      IF n # "retries" /\ OptionSearch(opts, Flag(n)) # None
      THEN <<OptionSearch(opts, Flag(n))>>
      ELSE old[n] ]

(* -------------------------------------------------- bracketed values *)

\* A value of entrypoint or cmd: Python None, a str (kept as its words) or a
\* list of str.
NoValue == [kind |-> "none", val |-> <<>>]
StrValue(words) == [kind |-> "str", val |-> words]
ListValue(items) == [kind |-> "list", val |-> items]

\* Python truthiness of such a value.
Truthy(v) == v.kind # "none" /\ v.val # <<>>

RECURSIVE MapSeq(_, _)
MapSeq(Op(_), s) == IF s = <<>> THEN <<>> ELSE <<Op(Head(s))>> \o MapSeq(Op, Tail(s))

IsBracketed(val) == val # <<>> /\ Opens(val[1]) /\ Closes(val[Len(val)])

\* eval(val.replace('"', "'")) succeeds.
EvalOk(val) == \A n \in 1..Len(val) : IsLiteralPiece(val[n])

\* The try/except of the JSON array branch: eval(), or on an exception the
\* manual tokenizer over val[1:-1].
DecodeArray(val) ==
  IF EvalOk(val) THEN ListValue(MapSeq(LiteralText, val))
  ELSE ListValue(MapSeq(Inner, val))

(* ------------------------------------------------------------ ENTRYPOINT *)

\* re.search(r'ENTRYPOINT\s+\[\s*"(/usr/local/bin/server)"\s*\]', original_content, I)
RECURSIVE EntrypointServerMatch(_, _)
EntrypointServerMatch(c, i) ==
  IF i > Len(c) THEN FALSE
  ELSE IF EndsWith(c[i], "ENTRYPOINT") /\ NextWord(c, i) # 0
          /\ c[NextWord(c, i)] = "[\"/usr/local/bin/server\"]"
       THEN TRUE
       ELSE EntrypointServerMatch(c, i + 1)

\* \[.+?\] from the opening token j (re.DOTALL): the tokens up to the first
\* one that ends in ], <<>> when no later token closes the bracket.
RECURSIVE UpToClose(_, _)
UpToClose(c, j) ==
  IF j > Len(c) THEN <<>>
  ELSE IF Closes(c[j]) THEN <<c[j]>>
  ELSE LET r == UpToClose(c, j + 1)
       IN IF r = <<>> THEN <<>>
          ELSE IF c[j] = NL THEN r ELSE <<c[j]>> \o r

\* re.search(r'ENTRYPOINT\s+(\[.+?\]|\S+)', content, I | DOTALL): group 1
\* of the first match as its words, <<>> without a match.
RECURSIVE EntrypointSearch(_, _)
EntrypointSearch(c, i) ==
  IF i > Len(c) THEN <<>>
  ELSE IF EndsWith(c[i], "ENTRYPOINT") /\ NextWord(c, i) # 0
       THEN LET j == NextWord(c, i)
            IN IF Opens(c[j]) /\ UpToClose(c, j) # <<>>
               THEN UpToClose(c, j)
               ELSE <<c[j]>>
       ELSE EntrypointSearch(c, i + 1)

\* Lines 101-134: the new self.entrypoint, and the local variable `content`
\* as the block leaves it: the except branch assigns entrypoint_val[1:-1] to
\* it.
EntrypointBlock(old, original_content, content) ==
  LET val == EntrypointSearch(content, 1)
  IN IF EntrypointServerMatch(original_content, 1)
     THEN [entrypoint |-> ListValue(<<"/usr/local/bin/server">>), content |-> content]
     ELSE IF val = <<>> THEN [entrypoint |-> old, content |-> content]
     ELSE IF IsBracketed(val)
          THEN [entrypoint |-> DecodeArray(val),
                content |-> IF EvalOk(val) THEN content ELSE MapSeq(Inner, val)]
          ELSE [entrypoint |-> StrValue(val), content |-> content]

(* ------------------------------------------------------------------- CMD *)

\* re.search(r'CMD\s+\[\s*"--config",\s*"/etc/app/config.yaml",\s*"--verbose"\s*\]',
\*           original_content, I)
RECURSIVE CmdMatchSpecific(_, _)
CmdMatchSpecific(c, i) ==
  IF i > Len(c) THEN FALSE
  ELSE LET j == NextWord(c, i)
           k == IF j = 0 THEN 0 ELSE NextWord(c, j)
           l == IF k = 0 THEN 0 ELSE NextWord(c, k)
       IN IF EndsWith(c[i], "CMD") /\ l # 0
             /\ c[j] = "[\"--config\"," /\ c[k] = "\"/etc/app/config.yaml\","
             /\ c[l] = "\"--verbose\"]"
          THEN TRUE
          ELSE CmdMatchSpecific(c, i + 1)

\* The loop of lines 145-151 from line i on: the arguments of the last line
\* that starts with 'CMD ' and whose previous line does not start with
\* HEALTHCHECK; `cmd_line` is the value so far (<<>> for None).
RECURSIVE CmdLineLoop(_, _, _)
CmdLineLoop(lines, i, cmd_line) ==
  IF i > Len(lines) THEN cmd_line
  ELSE LET line == lines[i]
           prev_line == IF i > 1 THEN lines[i - 1] ELSE <<>>
       IN IF Len(line) >= 2 /\ Upper(line[1]) = "CMD"
             /\ ~(prev_line # <<>> /\ StartsWith(prev_line[1], "HEALTHCHECK"))
          THEN CmdLineLoop(lines, i + 1, Tail(line))
          ELSE CmdLineLoop(lines, i + 1, cmd_line)

\* Lines 136-178: the new self.cmd.  `content` is the local variable as the
\* ENTRYPOINT block left it.
CmdBlock(old, original_content, content) ==
  LET cmd_line == CmdLineLoop(SplitLines(content, <<>>), 1, <<>>)
  IN IF CmdMatchSpecific(original_content, 1)
     THEN ListValue(<<"--config", "/etc/app/config.yaml", "--verbose">>)
     ELSE IF cmd_line = <<>> THEN old
     ELSE IF IsBracketed(cmd_line) THEN DecodeArray(cmd_line)
     ELSE StrValue(cmd_line)

(* ----------------------------------------------------------------- parse *)

\* DockerfileParser.__init__: the attributes of a new object.
NewParser ==
  [ from_image |-> None,
    exposed_ports |-> <<>>,
    volumes |-> <<>>,
    environment |-> <<>>,
    working_dir |-> None,
    entrypoint |-> NoValue,
    cmd |-> NoValue,
    healthcheck |-> NoValue,
    healthcheck_options |-> NoOptions ]

\* DockerfileParser.parse on a file that exists and can be read: the
\* attributes when it returns or raises, and the exception it raises (None
\* when it returns).
parse(self, lines) ==
  LET original_content == ReadText(lines)
      content == normalize_content(original_content)
      workdir_match == WorkdirSearch(content, 1)
      healthcheck_match == HealthcheckSearch(content, 1)
      retries_match == OptionSearch(healthcheck_match.options, "retries")
      options == OptionsBeforeRetries(self.healthcheck_options, healthcheck_match.options)
      s1 == [ self EXCEPT
                !.from_image = LastFrom(content, 1, self.from_image),
                !.exposed_ports = self.exposed_ports \o ExposeMatches(content, 1),
                !.volumes = self.volumes \o VolumeMatches(content, 1),
                !.environment = EnvMatches(content, 1, self.environment),
                !.working_dir = IF workdir_match # None THEN workdir_match
                                ELSE self.working_dir ]
      ep == EntrypointBlock(self.entrypoint, original_content, content)
  IN IF healthcheck_match.found /\ retries_match # None /\ ParseInt(retries_match) = -1
     THEN [ self |-> [s1 EXCEPT !.healthcheck_options = options],
            raised |-> "ValueError" ]
     ELSE LET s2 == IF healthcheck_match.found
                    THEN [ s1 EXCEPT
                             !.healthcheck_options =
                                IF retries_match # None
                                THEN [options EXCEPT !["retries"] = <<ParseInt(retries_match)>>]
                                ELSE options,
                             !.healthcheck = StrValue(healthcheck_match.cmd_str) ]
                    ELSE s1
          IN [ self |-> [ s2 EXCEPT
                            !.entrypoint = ep.entrypoint,
                            !.cmd = CmdBlock(self.cmd, original_content, ep.content) ],
               raised |-> None ]

(* ------------------------------------------------- generate_compose_yaml *)

\* ' '.join(words): a str kept as its words, written out.
RECURSIVE Join(_)
Join(words) ==
  IF words = <<>> THEN ""
  ELSE IF Len(words) = 1 THEN words[1]
  ELSE words[1] \o " " \o Join(Tail(words))

\* Path(self.dockerfile_path).parent.name.lower(), 'app' when that is empty
\* or '.': the modelled run is given the path "Dockerfile", whose parent has
\* the empty name.
service_name == "app"

\* [f"{x}:{x}" for x in xs]
RECURSIVE SelfMap(_)
SelfMap(xs) ==
  IF xs = <<>> THEN <<>>
  ELSE <<Head(xs) \o ":" \o Head(xs)>> \o SelfMap(Tail(xs))

\* Lines 223-233: the test list of the healthcheck.
healthcheck_cmd(healthcheck) ==
  IF IsBracketed(healthcheck.val)
  THEN IF EvalOk(healthcheck.val) THEN MapSeq(LiteralText, healthcheck.val)
       ELSE <<"CMD">> \o healthcheck.val
  ELSE <<"CMD-SHELL", Join(healthcheck.val)>>

\* Lines 235-256: healthcheck_config, its keys in insertion order.
healthcheck_config(self) ==
  LET o == self.healthcheck_options
  IN [ keys |-> <<"test", "interval", "timeout", "retries">>
                \o (IF o["start_period"] # <<>> THEN <<"start_period">> ELSE <<>>),
       test |-> healthcheck_cmd(self.healthcheck),
       interval |-> IF o["interval"] # <<>> THEN o["interval"][1] ELSE "30s",
       timeout |-> IF o["timeout"] # <<>> THEN o["timeout"][1] ELSE "10s",
       retries |-> IF o["retries"] # <<>> THEN o["retries"][1] ELSE 3,
       start_period |-> IF o["start_period"] # <<>> THEN o["start_period"][1] ELSE None ]

NoHealthcheck ==
  [ keys |-> <<>>, test |-> <<>>, interval |-> None, timeout |-> None,
    retries |-> 0, start_period |-> None ]

\* The service_config dict before generate_compose_yaml ran.
NoConfig ==
  [ keys |-> <<>>, image |-> None, ports |-> <<>>, volumes |-> <<>>,
    environment |-> <<>>, working_dir |-> None, healthcheck |-> NoHealthcheck,
    entrypoint |-> NoValue, command |-> NoValue ]

\* ConfigKeys with the guard of line 202 lost: 'image' is added whether or
\* not a FROM was found.
ConfigKeysImageAlways(self) ==
  <<"build", "image">>
  \o (IF self.exposed_ports # <<>> THEN <<"ports">> ELSE <<>>)
  \o (IF self.volumes # <<>> THEN <<"volumes">> ELSE <<>>)
  \o (IF self.environment # <<>> THEN <<"environment">> ELSE <<>>)
  \o (IF self.working_dir # None THEN <<"working_dir">> ELSE <<>>)
  \o (IF Truthy(self.healthcheck) THEN <<"healthcheck">> ELSE <<>>)
  \o (IF Truthy(self.entrypoint) THEN <<"entrypoint">> ELSE <<>>)
  \o (IF Truthy(self.cmd) THEN <<"command">> ELSE <<>>)

\* The keys of service_config in insertion order: 'build' from the dict
\* display of line 194, then one key per  if self.<attribute>:  block in the
\* order of the blocks (lines 202-266).
ConfigKeys(self) ==
  <<"build">>
  \o (IF self.from_image # None THEN <<"image">> ELSE <<>>)
  \o (IF self.exposed_ports # <<>> THEN <<"ports">> ELSE <<>>)
  \o (IF self.volumes # <<>> THEN <<"volumes">> ELSE <<>>)
  \o (IF self.environment # <<>> THEN <<"environment">> ELSE <<>>)
  \o (IF self.working_dir # None THEN <<"working_dir">> ELSE <<>>)
  \o (IF Truthy(self.healthcheck) THEN <<"healthcheck">> ELSE <<>>)
  \o (IF Truthy(self.entrypoint) THEN <<"entrypoint">> ELSE <<>>)
  \o (IF Truthy(self.cmd) THEN <<"command">> ELSE <<>>)

\* DockerfileParser.generate_compose_yaml: the service_config dict it
\* serializes, `keys` being the keys in insertion order (yaml.dump is called
\* with sort_keys=False) and the other fields the values of the keys present.
generate_compose_yaml(self) ==
  [ keys |-> ConfigKeys(self),
    image |-> IF self.from_image # None THEN service_name \o ":latest" ELSE None,
    ports |-> SelfMap(self.exposed_ports),
    volumes |-> SelfMap(self.volumes),
    environment |-> self.environment,
    working_dir |-> self.working_dir,
    healthcheck |-> IF Truthy(self.healthcheck) THEN healthcheck_config(self)
                    ELSE NoHealthcheck,
    entrypoint |-> IF Truthy(self.entrypoint) THEN self.entrypoint ELSE NoValue,
    command |-> IF Truthy(self.cmd) THEN self.cmd ELSE NoValue ]

(* ----------------------------------------------------------------- state *)

VARIABLES
  dockerfile,      \* the raw lines of the file at dockerfile_path
  pc,              \* where the run is
  self,            \* the attributes of the DockerfileParser object
  calls,           \* parse() calls on it that returned
  service_config,  \* what generate_compose_yaml built
  raised,          \* the exception that ended the run, None without one
  exit_code,       \* the exit code of the process, -1 while it runs
  out_opened       \* output_path was opened for writing

vars ==
  <<dockerfile, pc, self, calls, service_config, raised, exit_code, out_opened>>

\* A DockerfileParser was constructed on some Dockerfile; nothing ran yet.
Init ==
  /\ dockerfile \in Dockerfiles
  /\ pc = "start"
  /\ self = NewParser
  /\ calls = 0
  /\ service_config = NoConfig
  /\ raised = None
  /\ exit_code = -1
  /\ out_opened = FALSE

(* ------------------------------------------------------------------ main *)

\* ExceptExit with the sys.exit(1) of line 299 lost: the error is echoed and
\* main returns, so the process ends with code 0.
ExceptExitSwallowed(e) == [raised |-> e, exit_code |-> 0]

\* except Exception as e: click.echo(..., err=True); sys.exit(1)
ExceptExit(e) == [raised |-> e, exit_code |-> 1]

\* click.Path(exists=True) on a path that does not exist or cannot be read:
\* click reports the bad parameter as a usage error and exits with code 2
\* before main's body runs.
ClickRejects ==
  /\ pc = "start"
  /\ pc' = "exited"
  /\ raised' = "UsageError"
  /\ exit_code' = 2
  /\ UNCHANGED <<dockerfile, self, calls, service_config, out_opened>>

\* The argument is accepted and main constructs the parser.
MainEnter ==
  /\ pc = "start"
  /\ pc' = "constructed"
  /\ UNCHANGED <<dockerfile, self, calls, service_config, raised, exit_code, out_opened>>

\* parser.parse() fails on the file itself: it was removed since click
\* looked (the os.path.exists test of line 27), or the path is a directory,
\* which click accepts and open() refuses.
MainParseIOError ==
  /\ pc = "constructed"
  /\ \E e \in {"FileNotFoundError", "IsADirectoryError"} :
       /\ raised' = ExceptExit(e).raised
       /\ exit_code' = ExceptExit(e).exit_code
  /\ pc' = "exited"
  /\ UNCHANGED <<dockerfile, self, calls, service_config, out_opened>>

\* parser.parse() raises while it extracts.
MainParseRaises ==
  /\ pc = "constructed"
  /\ LET r == parse(self, dockerfile)
     IN /\ r.raised # None
        /\ self' = r.self
        /\ raised' = ExceptExit(r.raised).raised
        /\ exit_code' = ExceptExit(r.raised).exit_code
  /\ pc' = "exited"
  /\ UNCHANGED <<dockerfile, calls, service_config, out_opened>>

\* parser.parse() returns.
MainParseReturns ==
  /\ pc = "constructed"
  /\ LET r == parse(self, dockerfile)
     IN r.raised = None /\ self' = r.self
  /\ calls' = calls + 1
  /\ pc' = "parsed"
  /\ UNCHANGED <<dockerfile, service_config, raised, exit_code, out_opened>>

\* compose_yaml = parser.generate_compose_yaml()
MainGenerate ==
  /\ pc = "parsed"
  /\ service_config' = generate_compose_yaml(self)
  /\ pc' = "generated"
  /\ UNCHANGED <<dockerfile, self, calls, raised, exit_code, out_opened>>

\* Writing the output fails: open(output_path, 'w') is refused
\* (PermissionError), or f.write fails on the opened file (OSError).
MainWriteFails ==
  /\ pc = "generated"
  /\ \E e \in {"PermissionError", "OSError"} :
       /\ out_opened' = (e = "OSError")
       /\ raised' = ExceptExit(e).raised
       /\ exit_code' = ExceptExit(e).exit_code
  /\ pc' = "exited"
  /\ UNCHANGED <<dockerfile, self, calls, service_config>>

\* The file is written, success is echoed and main returns.
MainWrites ==
  /\ pc = "generated"
  /\ out_opened' = TRUE
  /\ exit_code' = 0
  /\ pc' = "exited"
  /\ UNCHANGED <<dockerfile, self, calls, service_config, raised>>

Next ==
  \/ ClickRejects
  \/ MainEnter
  \/ MainParseIOError
  \/ MainParseRaises
  \/ MainParseReturns
  \/ MainGenerate
  \/ MainWriteFails
  \/ MainWrites

\* One run of the command line program.
Spec == Init /\ [][Next]_vars

(* ------------------------------------------------- the parser as a library *)

\* parse() is called on the object, which no call has left by raising, and
\* returns.
ApiParseReturns ==
  /\ pc \in {"start", "parsed"}
  /\ calls < MaxParses
  /\ LET r == parse(self, dockerfile)
     IN r.raised = None /\ self' = r.self
  /\ calls' = calls + 1
  /\ pc' = "parsed"
  /\ UNCHANGED <<dockerfile, service_config, raised, exit_code, out_opened>>

\* parse() is called and raises to its caller.
ApiParseRaises ==
  /\ pc \in {"start", "parsed"}
  /\ calls < MaxParses
  /\ LET r == parse(self, dockerfile)
     IN r.raised # None /\ self' = r.self /\ raised' = r.raised
  /\ pc' = "raised"
  /\ UNCHANGED <<dockerfile, calls, service_config, exit_code, out_opened>>

\* generate_compose_yaml() is called on the parsed object.
ApiGenerate ==
  /\ pc = "parsed"
  /\ service_config' = generate_compose_yaml(self)
  /\ pc' = "generated"
  /\ UNCHANGED <<dockerfile, self, calls, raised, exit_code, out_opened>>

NextApi == ApiParseReturns \/ ApiParseRaises \/ ApiGenerate

\* A caller that holds one DockerfileParser object and calls parse() on it
\* up to MaxParses times.
SpecApi == Init /\ [][NextApi]_vars

(* ---------------------------------------------------------------- claims *)

\* The logical lines of the Dockerfile: its text with the line continuations
\* joined, split at the line breaks.
LogicalLines == SplitLines(normalize_content(ReadText(dockerfile)), <<>>)

\* A logical line that is the instruction kw with at least one argument.
IsInstruction(line, kw) == Len(line) >= 2 /\ Upper(line[1]) = kw

\* The positions of the CMD lines that do not directly follow a HEALTHCHECK
\* line.
StandaloneCmdAt ==
  { i \in 1..Len(LogicalLines) :
      /\ IsInstruction(LogicalLines[i], "CMD")
      /\ ~(i > 1 /\ LogicalLines[i - 1] # <<>>
           /\ Upper(LogicalLines[i - 1][1]) = "HEALTHCHECK") }

EntrypointAt ==
  { i \in 1..Len(LogicalLines) : IsInstruction(LogicalLines[i], "ENTRYPOINT") }

FromAt ==
  { i \in 1..Len(LogicalLines) : IsInstruction(LogicalLines[i], "FROM") }

Max(S) == CHOOSE x \in S : \A y \in S : y <= x

\* C1 (as claimed): a CMD line whose preceding line is a HEALTHCHECK line
\* never populates cmd: after parse(), when the Dockerfile has no CMD line
\* other than such lines, cmd is unset, whatever the arguments of the CMD
\* line are.
C1_CmdAfterHealthcheckUnset ==
  (pc = "parsed" /\ StandaloneCmdAt = {}) => self.cmd = NoValue

\* C2 (as claimed): extraction is idempotent: after any number n >= 1 of
\* parse() calls on the same text, every attribute of the parser equals its
\* value after a single parse() call.
C2_ReparseIdempotent ==
  (pc = "parsed" /\ calls >= 1) => self = parse(NewParser, dockerfile).self

\* C3 (as claimed): parsing is fault-tolerant per directive: a run on a file
\* that exists and can be read, and whose output can be written, raises
\* nothing and ends in success, whatever the content of the directives is.
C3_ContentNeverFailsRun ==
  (pc = "exited"
   /\ raised \notin {"UsageError", "FileNotFoundError", "PermissionError", "OSError"})
  => (raised = None /\ exit_code = 0)

\* C4 (as claimed): after parse() the base image is the image reference of
\* the last FROM instruction of the Dockerfile, and unset when it has none.
C4_BaseImageIsLastFrom ==
  pc = "parsed" =>
    self.from_image = IF FromAt = {} THEN None ELSE LogicalLines[Max(FromAt)][2]

\* The protocol of an EXPOSE argument <port>[/<protocol>], tcp when it names
\* none.
Protocol(t) == IF t = "53/udp" THEN "udp" ELSE "tcp"

\* The mapping strings the claim gives the EXPOSE occurrences from position i
\* on: "<port>:<port>" for tcp, "<port>:<port>/<protocol>" otherwise.
RECURSIVE ClaimedPorts(_, _)
ClaimedPorts(c, i) ==
  IF i > Len(c) THEN <<>>
  ELSE IF EndsWith(c[i], "EXPOSE") /\ NextWord(c, i) # 0
          /\ Digits(c[NextWord(c, i)]) # ""
       THEN LET t == c[NextWord(c, i)]
                m == Digits(t) \o ":" \o Digits(t)
            IN <<IF Protocol(t) = "tcp" THEN m ELSE m \o "/" \o Protocol(t)>>
               \o ClaimedPorts(c, NextWord(c, i) + 1)
       ELSE ClaimedPorts(c, i + 1)

\* C5 (as claimed): the ports list of the assembled record holds, for every
\* EXPOSE <port>[/<protocol>] occurrence in encounter order and without
\* deduplication, "<port>:<port>" when the protocol is tcp or unspecified
\* and "<port>:<port>/<protocol>" otherwise.
C5_PortsCarryProtocol ==
  pc = "generated" =>
    service_config.ports = ClaimedPorts(normalize_content(ReadText(dockerfile)), 1)

\* The position of the CMD keyword of a HEALTHCHECK instruction line that has
\* a CMD clause, 0 for any other line.
RECURSIVE CmdClauseAt(_, _)
CmdClauseAt(line, i) ==
  IF i >= Len(line) THEN 0
  ELSE IF Upper(line[i]) = "CMD" THEN i ELSE CmdClauseAt(line, i + 1)

HealthcheckLinesAt ==
  { i \in 1..Len(LogicalLines) :
      /\ LogicalLines[i] # <<>>
      /\ Upper(LogicalLines[i][1]) = "HEALTHCHECK"
      /\ CmdClauseAt(LogicalLines[i], 2) # 0 }

\* C6 (as claimed): a HEALTHCHECK instruction with a CMD clause always
\* produces a healthcheck record whose test is "CMD" followed by the words of
\* the command and in which interval, timeout, retries and start_period are
\* all present, each option not given on the line with its default ("30s",
\* "10s", 3, "0s").
C6_HealthcheckDefaults ==
  (pc = "generated" /\ Cardinality(HealthcheckLinesAt) = 1) =>
    LET line == LogicalLines[CHOOSE i \in HealthcheckLinesAt : TRUE]
        k == CmdClauseAt(line, 2)
        given(n) == OptionSearch(line, Flag(n))
        h == service_config.healthcheck
    IN /\ "healthcheck" \in { service_config.keys[j] : j \in 1..Len(service_config.keys) }
       /\ h.test = <<"CMD">> \o SubSeq(line, k + 1, Len(line))
       /\ h.keys = <<"test", "interval", "timeout", "retries", "start_period">>
       /\ h.interval = IF given("interval") # None THEN given("interval") ELSE "30s"
       /\ h.timeout = IF given("timeout") # None THEN given("timeout") ELSE "10s"
       /\ h.retries = IF given("retries") # None THEN ParseInt(given("retries")) ELSE 3
       /\ h.start_period = IF given("start_period") # None THEN given("start_period")
                           ELSE "0s"

\* C7 (as claimed): with several ENTRYPOINT instructions the entrypoint after
\* parse() is the one decoded from the last of them, and with several
\* standalone CMD instructions the command is the one decoded from the last
\* of them, never from an earlier one.
C7_LastOccurrenceWins ==
  pc = "parsed" =>
    /\ Cardinality(EntrypointAt) >= 2 =>
         self.entrypoint =
           parse(NewParser, <<LogicalLines[Max(EntrypointAt)]>>).self.entrypoint
    /\ Cardinality(StandaloneCmdAt) >= 2 =>
         self.cmd = parse(NewParser, <<LogicalLines[Max(StandaloneCmdAt)]>>).self.cmd

\* The source attribute of a key of the service record is set and non-empty.
SourceSet(k) ==
  CASE k = "build" -> TRUE
    [] k = "image" -> self.from_image # None
    [] k = "ports" -> self.exposed_ports # <<>>
    [] k = "volumes" -> self.volumes # <<>>
    [] k = "environment" -> self.environment # <<>>
    [] k = "user" -> FALSE
    [] k = "healthcheck" -> Truthy(self.healthcheck)
    [] k = "entrypoint" -> Truthy(self.entrypoint)
    [] k = "command" -> Truthy(self.cmd)
    [] k = "working_dir" -> self.working_dir # None

ClaimedKeyOrder ==
  <<"build", "image", "ports", "volumes", "environment", "user", "healthcheck",
    "entrypoint", "command", "working_dir">>

ActualKeyOrder ==
  <<"build", "image", "ports", "volumes", "environment", "working_dir",
    "healthcheck", "entrypoint", "command">>

C9_ExitZeroOrOne ==
  pc = "exited" =>
    /\ exit_code = (IF raised = None THEN 0 ELSE 1)
    /\ calls = 0 => ~out_opened

\* C9 (amended): every run of main ends with exit code 0 when the compose
\* file was generated and written, with exit code 2 when click rejects an
\* input path that does not exist or cannot be read, and with exit code 1 on
\* any exception raised in main's body; on an input error the output file is
\* never opened for writing.
C9_ExitCodes ==
  pc = "exited" =>
    /\ exit_code = (CASE raised = None -> 0
                      [] raised = "UsageError" -> 2
                      [] OTHER -> 1)
    /\ raised = None => (out_opened /\ service_config = generate_compose_yaml(self))
    /\ calls = 0 => ~out_opened

\* A run ended with click rejecting the input path, the output never opened.
C9_Witness ==
  pc = "exited" /\ raised = "UsageError" /\ exit_code = 2 /\ ~out_opened

\* The logical lines with every ENTRYPOINT instruction replaced by one in
\* shell form.
ShellEntrypoints ==
  [ i \in 1..Len(LogicalLines) |->
      IF IsInstruction(LogicalLines[i], "ENTRYPOINT")
      THEN <<"ENTRYPOINT", "/start.sh">> ELSE LogicalLines[i] ]

\* C10 (as claimed): extractors are independent: of two Dockerfiles that
\* differ only in the form of their ENTRYPOINT instructions, or in whether
\* the bracket content of these is well-formed, parse() yields the same
\* command.
C10_CmdIndependentOfEntrypoint ==
  pc = "parsed" => self.cmd = parse(NewParser, ShellEntrypoints).self.cmd

====
